---- MODULE Spec2Model ----
(***************************************************************************)
(* Model of the query-result cache of Group9_SourceProgram.cpp: the        *)
(* CacheStrategy template methods (get / put), the three policies          *)
(* (LIRSCache, TinyFLUCache, S3FIFOCache) and DatabaseSystem's             *)
(* set_cache_strategy.  The active policy object is one record, held in    *)
(* the variable cache_strategy (DatabaseSystem's pointer of that name).    *)
(***************************************************************************)
EXTENDS Integers, Sequences, FiniteSets, TLC

VARIABLES
    cache_strategy, \* the object DatabaseSystem::cache_strategy points to
    crashed,        \* the process was ended by the double delete (undefined behaviour)
    last,           \* observation of the last call: its arguments, result and hook calls
    fifo,           \* observation: admission order of the resident keys while no update has run
    touch,          \* observation: resident keys by last touch (LIRS and TinyFLU objects)
    updates,        \* observation: updates per resident key since admission (S3-FIFO objects)
    inserted,       \* observation: the result each resident key was inserted with
    gets,           \* observation: get calls made on the object since its construction
    twin,           \* a TinyFLUCache driven with the calls made on cache_strategy
    threads,        \* per thread inside process_query: its position and its locals
    age             \* observation: per resident key, the puts of new keys since its last touch

vars == <<cache_strategy, crashed, last, fifo, touch, updates, inserted, gets, twin, threads,
          age>>

-----------------------------------------------------------------------------
(* Bounds of the model and constants of the program. *)

NumKeys == 5        \* number of distinct non-empty query strings offered
MaxHits == 1        \* get is offered while cache_hits is below this
MaxMisses == 1      \* get is offered while cache_misses is below this
Capacity == 5       \* new LIRSCache(5), new TinyFLUCache(5), new S3FIFOCache(5)
MaxQueries == 6     \* process_query is offered while hits + misses is below this

MaxRuns == 2        \* run_benchmark is offered while hits + misses is below 7 times this
KeyNames == <<"k1", "k2", "k3", "k4", "k5", "k6", "k7", "k8">>
Keys == {""} \cup {KeyNames[i] : i \in 1..NumKeys}
Values == {"v1", "v2"}

\* the (query, result) pairs offered to put: every key with the first value, and one
\* key with the second value too
RePutKeys == {KeyNames[1]}
PutArgs == (Keys \X {"v1"}) \cup (RePutKeys \X {"v2"})

-----------------------------------------------------------------------------
(* Sequence helpers: the standard-library calls the policies make. *)

\* std::remove + erase: drops every occurrence of x
RemoveAll(s, x) == SelectSeq(s, LAMBDA y : y # x)

\* std::find: index of the first occurrence of x, 0 for end()
Find(s, x) ==
    IF \E i \in 1..Len(s) : s[i] = x
    THEN CHOOSE i \in 1..Len(s) : s[i] = x /\ \A j \in 1..(i - 1) : s[j] # x
    ELSE 0

\* deque::erase(it): drops the element at index i
EraseAt(s, i) == SubSeq(s, 1, i - 1) \o SubSeq(s, i + 1, Len(s))

Range(s) == {s[i] : i \in 1..Len(s)}

\* unordered_map::erase(key)
MapErase(m, k) == [x \in DOMAIN m \ {k} |-> m[x]]

\* unordered_map::operator[] used as an assignment
MapSet(m, k, v) == [x \in DOMAIN m \cup {k} |-> IF x = k THEN v ELSE m[x]]

EmptyMap == [x \in {} |-> ""]

-----------------------------------------------------------------------------
(* Constructors. *)

New_LIRSCache(cap) ==
    [kind |-> "lirs", capacity |-> cap, cache |-> EmptyMap,
     cache_hits |-> 0, cache_misses |-> 0,
     high_interference_list |-> <<>>, low_interference_list |-> <<>>,
     in_high |-> [x \in {} |-> TRUE]]

New_TinyFLUCache(cap) ==
    [kind |-> "tinyflu", capacity |-> cap, cache |-> EmptyMap,
     cache_hits |-> 0, cache_misses |-> 0,
     query_queue |-> <<>>]

New_S3FIFOCache(cap) ==
    [kind |-> "s3fifo", capacity |-> cap, cache |-> EmptyMap,
     cache_hits |-> 0, cache_misses |-> 0,
     short_term |-> <<>>, medium_term |-> <<>>, long_term |-> <<>>]

-----------------------------------------------------------------------------
(* LIRSCache *)

\* mutant of admit: a new key enters the low list, as a resident of low standing
LIRS_admit_ToLow(self, query) ==
    [self EXCEPT !.low_interference_list = Append(@, query),
                 !.in_high = MapSet(@, query, FALSE)]

LIRS_admit(self, query) ==
    [self EXCEPT !.high_interference_list = Append(@, query),
                 !.in_high = MapSet(@, query, TRUE)]

LIRS_update(self, query) ==
    LET ih == IF query \in DOMAIN self.in_high
              THEN self.in_high
              ELSE MapSet(self.in_high, query, FALSE)   \* operator[] default-inserts false
    IN  IF ih[query]
        THEN [self EXCEPT !.high_interference_list = Append(RemoveAll(@, query), query),
                          !.in_high = ih]
        ELSE [self EXCEPT !.low_interference_list = RemoveAll(@, query),
                          !.high_interference_list = Append(@, query),
                          !.in_high = MapSet(ih, query, TRUE)]

\* begin is the key cache.begin() yields (any key of the unordered_map)
LIRS_evict(self, begin) ==
    LET hi == self.high_interference_list
        lo == self.low_interference_list
        victim == IF hi # <<>> THEN Head(hi)
                  ELSE IF lo # <<>> THEN Head(lo)
                  ELSE IF DOMAIN self.cache # {} THEN begin
                  ELSE ""
        popped == IF hi # <<>> THEN [self EXCEPT !.high_interference_list = Tail(@)]
                  ELSE IF lo # <<>> THEN [self EXCEPT !.low_interference_list = Tail(@)]
                  ELSE self
    IN  IF victim # ""
        THEN [popped EXCEPT !.cache = MapErase(@, victim),
                            !.in_high = MapErase(@, victim)]
        ELSE popped

-----------------------------------------------------------------------------
(* TinyFLUCache *)

TinyFLU_admit(self, query) ==
    [self EXCEPT !.query_queue = Append(@, query)]

TinyFLU_update(self, query) ==
    [self EXCEPT !.query_queue = Append(RemoveAll(@, query), query)]

TinyFLU_evict(self, begin) ==
    IF self.query_queue # <<>>
    THEN [self EXCEPT !.query_queue = Tail(@),
                      !.cache = MapErase(@, Head(self.query_queue))]
    ELSE self

-----------------------------------------------------------------------------
(* S3FIFOCache *)

S3FIFO_admit(self, query) ==
    [self EXCEPT !.short_term = Append(@, query)]

S3FIFO_update(self, query) ==
    IF Find(self.short_term, query) # 0
    THEN [self EXCEPT !.short_term = EraseAt(@, Find(self.short_term, query)),
                      !.medium_term = Append(@, query)]
    ELSE IF Find(self.medium_term, query) # 0
    THEN [self EXCEPT !.medium_term = EraseAt(@, Find(self.medium_term, query)),
                      !.long_term = Append(@, query)]
    ELSE IF Find(self.long_term, query) # 0
    THEN [self EXCEPT !.long_term = Append(EraseAt(@, Find(self.long_term, query)), query)]
    ELSE self

S3FIFO_evict(self, begin) ==
    LET st == self.short_term
        mt == self.medium_term
        lt == self.long_term
        victim == IF st # <<>> THEN Head(st)
                  ELSE IF mt # <<>> THEN Head(mt)
                  ELSE IF lt # <<>> THEN Head(lt)
                  ELSE IF DOMAIN self.cache # {} THEN begin
                  ELSE ""
        popped == IF st # <<>> THEN [self EXCEPT !.short_term = Tail(@)]
                  ELSE IF mt # <<>> THEN [self EXCEPT !.medium_term = Tail(@)]
                  ELSE IF lt # <<>> THEN [self EXCEPT !.long_term = Tail(@)]
                  ELSE self
    IN  IF victim # ""
        THEN [popped EXCEPT !.cache = MapErase(@, victim)]
        ELSE popped

-----------------------------------------------------------------------------
(* Virtual dispatch of the three hooks. *)

admit(self, query) ==
    CASE self.kind = "lirs" -> LIRS_admit(self, query)
      [] self.kind = "tinyflu" -> TinyFLU_admit(self, query)
      [] self.kind = "s3fifo" -> S3FIFO_admit(self, query)

update(self, query) ==
    CASE self.kind = "lirs" -> LIRS_update(self, query)
      [] self.kind = "tinyflu" -> TinyFLU_update(self, query)
      [] self.kind = "s3fifo" -> S3FIFO_update(self, query)

evict(self, begin) ==
    CASE self.kind = "lirs" -> LIRS_evict(self, begin)
      [] self.kind = "tinyflu" -> TinyFLU_evict(self, begin)
      [] self.kind = "s3fifo" -> S3FIFO_evict(self, begin)

-----------------------------------------------------------------------------
(* CacheStrategy: the template methods.  Each returns the object after the  *)
(* call, the value returned (get) and the hooks it called, in call order    *)
(* ("insert" is the store assignment cache[query] = result).                *)

\* mutant of get: the miss counter is advanced on a hit as well
CacheStrategy_get_CountsMissOnHit(self, query) ==
    IF query \in DOMAIN self.cache
    THEN LET counted == [self EXCEPT !.cache_hits = @ + 1, !.cache_misses = @ + 1]
             updated == update(counted, query)
         IN  [self |-> updated, ret |-> updated.cache[query], calls |-> <<"update">>]
    ELSE [self |-> [self EXCEPT !.cache_misses = @ + 1], ret |-> "", calls |-> <<>>]

\* mutant of get: a miss returns cache[query], which default-inserts the key
CacheStrategy_get_InsertsOnMiss(self, query) ==
    IF query \in DOMAIN self.cache
    THEN LET counted == [self EXCEPT !.cache_hits = @ + 1]
             updated == update(counted, query)
         IN  [self |-> updated, ret |-> updated.cache[query], calls |-> <<"update">>]
    ELSE [self |-> [self EXCEPT !.cache_misses = @ + 1, !.cache = MapSet(@, query, "")],
          ret |-> "", calls |-> <<>>]

CacheStrategy_get(self, query) ==
    IF query \in DOMAIN self.cache
    THEN LET counted == [self EXCEPT !.cache_hits = @ + 1]
             updated == update(counted, query)
             \* return cache[query]: operator[] default-inserts "" for an absent key
             read == IF query \in DOMAIN updated.cache
                     THEN updated
                     ELSE [updated EXCEPT !.cache = MapSet(@, query, "")]
         IN  [self |-> read, ret |-> read.cache[query], calls |-> <<"update">>]
    ELSE [self |-> [self EXCEPT !.cache_misses = @ + 1], ret |-> "", calls |-> <<>>]

\* mutant of put: the result is stored before the presence test
CacheStrategy_put_Overwrites(self, query, result, begin) ==
    IF query \in DOMAIN self.cache
    THEN [self |-> update([self EXCEPT !.cache = MapSet(@, query, result)], query),
          ret |-> "", calls |-> <<"update">>]
    ELSE LET full == Cardinality(DOMAIN self.cache) >= self.capacity
             evicted == IF full THEN evict(self, begin) ELSE self
             stored == [evicted EXCEPT !.cache = MapSet(@, query, result)]
         IN  [self |-> admit(stored, query), ret |-> "",
              calls |-> (IF full THEN <<"evict">> ELSE <<>>) \o <<"insert", "admit">>]

\* mutant of put: the result is stored first and the size test follows
CacheStrategy_put_EvictsAfterInsert(self, query, result, begin) ==
    IF query \in DOMAIN self.cache
    THEN [self |-> update(self, query), ret |-> "", calls |-> <<"update">>]
    ELSE LET stored == [self EXCEPT !.cache = MapSet(@, query, result)]
             full == Cardinality(DOMAIN stored.cache) >= self.capacity
             evicted == IF full THEN evict(stored, begin) ELSE stored
         IN  [self |-> admit(evicted, query), ret |-> "",
              calls |-> <<"insert">> \o (IF full THEN <<"evict">> ELSE <<>>) \o <<"admit">>]

\* mutant of put: storing a new key is counted as a miss
CacheStrategy_put_CountsMiss(self, query, result, begin) ==
    IF query \in DOMAIN self.cache
    THEN [self |-> update(self, query), ret |-> "", calls |-> <<"update">>]
    ELSE LET full == Cardinality(DOMAIN self.cache) >= self.capacity
             evicted == IF full THEN evict(self, begin) ELSE self
             stored == [evicted EXCEPT !.cache = MapSet(@, query, result),
                                       !.cache_misses = @ + 1]
         IN  [self |-> admit(stored, query), ret |-> "",
              calls |-> (IF full THEN <<"evict">> ELSE <<>>) \o <<"insert", "admit">>]

CacheStrategy_put(self, query, result, begin) ==
    IF query \in DOMAIN self.cache
    THEN [self |-> update(self, query), ret |-> "", calls |-> <<"update">>]
    ELSE LET full == Cardinality(DOMAIN self.cache) >= self.capacity
             evicted == IF full THEN evict(self, begin) ELSE self
             stored == [evicted EXCEPT !.cache = MapSet(@, query, result)]
         IN  [self |-> admit(stored, query), ret |-> "",
              calls |-> (IF full THEN <<"evict">> ELSE <<>>) \o <<"insert", "admit">>]

\* the policy-owned sequences of an object, in the order evict inspects them
Sequences_of(self) ==
    CASE self.kind = "lirs" -> <<self.high_interference_list, self.low_interference_list>>
      [] self.kind = "tinyflu" -> <<self.query_queue>>
      [] self.kind = "s3fifo" -> <<self.short_term, self.medium_term, self.long_term>>

Store(self) == DOMAIN self.cache

\* the keys cache.begin() may yield where evict evaluates it (every sequence empty,
\* store not empty): the iteration order of an unordered_map is unspecified
BeginChoices(self) ==
    IF DOMAIN self.cache # {} /\ \A i \in 1..Len(Sequences_of(self)) : Sequences_of(self)[i] = <<>>
    THEN DOMAIN self.cache
    ELSE {""}

-----------------------------------------------------------------------------
(* DatabaseSystem::set_cache_strategy: the name is a sequence of characters. *)

UpperCase == <<"A","B","C","D","E","F","G","H","I","J","K","L","M",
               "N","O","P","Q","R","S","T","U","V","W","X","Y","Z">>
LowerCase == <<"a","b","c","d","e","f","g","h","i","j","k","l","m",
               "n","o","p","q","r","s","t","u","v","w","x","y","z">>

\* ::tolower on one character
tolower(c) ==
    IF \E i \in 1..Len(UpperCase) : UpperCase[i] = c
    THEN LowerCase[CHOOSE i \in 1..Len(UpperCase) : UpperCase[i] = c]
    ELSE c

\* std::transform(..., ::tolower)
ToLowerStr(str) == [i \in 1..Len(str) |-> tolower(str[i])]

\* DatabaseSystem::trim: strips spaces (only spaces) at both ends
trim(str) ==
    LET nonspace == {i \in 1..Len(str) : str[i] # " "}
    IN  IF nonspace = {} THEN <<>>
        ELSE LET first == CHOOSE i \in nonspace : \A j \in nonspace : i <= j
                 lst == CHOOSE i \in nonspace : \A j \in nonspace : j <= i
             IN  SubSeq(str, first, lst)

\* the branch of the if / else-if chain the processed name takes
Selected(strategy) ==
    LET strat == ToLowerStr(trim(strategy))
    IN  IF strat = <<"l","i","r","s">> THEN "lirs"
        ELSE IF strat = <<"t","i","n","y","f","l","u">> THEN "tinyflu"
        ELSE IF strat = <<"s","3","f","i","f","o">> \/ strat = <<"s","3","-","f","i","f","o">>
             THEN "s3fifo"
        ELSE "invalid"

\* the object the taken branch constructs
Constructed(branch) ==
    CASE branch = "lirs" -> New_LIRSCache(Capacity)
      [] branch = "tinyflu" -> New_TinyFLUCache(Capacity)
      [] branch = "s3fifo" -> New_S3FIFOCache(Capacity)
      [] branch = "invalid" -> New_LIRSCache(Capacity)

\* delete expressions the call executes on the old pointer: line 348, and line 380 again
\* in the else branch, where cache_strategy still holds the pointer already deleted
DeletesOfOld(branch) == IF branch = "invalid" THEN 2 ELSE 1

\* what cache_strategy refers to once the process has been ended inside the call
Freed == [kind |-> "freed"]

Names == {
    <<"l","i","r","s">>,
    <<" ","T","i","n","y","F","L","U"," ">>,
    <<"s","3","f","i","f","o">>,
    <<"S","3","-","F","I","F","O">>,
    <<"l","r","u">>,
    <<" "," ">> }

-----------------------------------------------------------------------------
(* The query pipeline of DatabaseSystem::process_query.  TLA+ strings are   *)
(* atoms, so QueryChars gives the characters of each query text offered,    *)
(* and PlanText and ResultText give the concatenations the optimizer and    *)
(* the engine build.                                                        *)

\* the characters of the texts of run_benchmark, as written and in lower case
BenchmarkChars ==
    ("SELECT * FROM employees" :>
        <<"S","E","L","E","C","T"," ","*"," ","F","R","O","M"," ","e","m","p",
        "l","o","y","e","e","s">>) @@
    ("select * from employees" :>
        <<"s","e","l","e","c","t"," ","*"," ","f","r","o","m"," ","e","m","p",
        "l","o","y","e","e","s">>) @@
    ("SELECT * FROM orders WHERE order_id = 100" :>
        <<"S","E","L","E","C","T"," ","*"," ","F","R","O","M"," ","o","r","d",
        "e","r","s"," ","W","H","E","R","E"," ","o","r","d","e","r","_","i",
        "d"," ","="," ","1","0","0">>) @@
    ("select * from orders where order_id = 100" :>
        <<"s","e","l","e","c","t"," ","*"," ","f","r","o","m"," ","o","r","d",
        "e","r","s"," ","w","h","e","r","e"," ","o","r","d","e","r","_","i",
        "d"," ","="," ","1","0","0">>) @@
    ("SELECT name FROM customers WHERE city = 'New York'" :>
        <<"S","E","L","E","C","T"," ","n","a","m","e"," ","F","R","O","M"," ",
        "c","u","s","t","o","m","e","r","s"," ","W","H","E","R","E"," ","c",
        "i","t","y"," ","="," ","'","N","e","w"," ","Y","o","r","k","'">>) @@
    ("select name from customers where city = 'new york'" :>
        <<"s","e","l","e","c","t"," ","n","a","m","e"," ","f","r","o","m"," ",
        "c","u","s","t","o","m","e","r","s"," ","w","h","e","r","e"," ","c",
        "i","t","y"," ","="," ","'","n","e","w"," ","y","o","r","k","'">>) @@
    ("SELECT * FROM orders" :>
        <<"S","E","L","E","C","T"," ","*"," ","F","R","O","M"," ","o","r","d",
        "e","r","s">>) @@
    ("select * from orders" :>
        <<"s","e","l","e","c","t"," ","*"," ","f","r","o","m"," ","o","r","d",
        "e","r","s">>) @@
    ("SELECT COUNT(*) FROM sales" :>
        <<"S","E","L","E","C","T"," ","C","O","U","N","T","(","*",")"," ","F",
        "R","O","M"," ","s","a","l","e","s">>) @@
    ("select count(*) from sales" :>
        <<"s","e","l","e","c","t"," ","c","o","u","n","t","(","*",")"," ","f",
        "r","o","m"," ","s","a","l","e","s">>)

QueryChars ==
    ("" :> <<>>) @@ ("q1" :> <<"q","1">>) @@ ("Q1" :> <<"Q","1">>) @@
    ("q2" :> <<"q","2">>) @@ ("Q2" :> <<"Q","2">>) @@ ("q3" :> <<"q","3">>) @@
    BenchmarkChars

\* the query texts offered to process_query one at a time
Queries == {"", "q1", "Q1", "q2", "Q2", "q3"}

\* QueryParser::parse: the text with ::tolower applied to every character
QueryParser_parse(query) ==
    CHOOSE parsed \in DOMAIN QueryChars :
        QueryChars[parsed] = ToLowerStr(QueryChars[query])

BenchmarkPlanText ==
    ("select * from employees" :>
        "OptimizedPlan(select * from employees)") @@
    ("select * from orders where order_id = 100" :>
        "OptimizedPlan(select * from orders where order_id = 100)") @@
    ("select name from customers where city = 'new york'" :>
        "OptimizedPlan(select name from customers where city = 'new york')") @@
    ("select * from orders" :>
        "OptimizedPlan(select * from orders)") @@
    ("select count(*) from sales" :>
        "OptimizedPlan(select count(*) from sales)")

PlanText ==
    ("" :> "OptimizedPlan()") @@ ("q1" :> "OptimizedPlan(q1)") @@
    ("q2" :> "OptimizedPlan(q2)") @@ ("q3" :> "OptimizedPlan(q3)") @@
    BenchmarkPlanText

\* QueryOptimizer::optimize: "OptimizedPlan(" + parsed_query + ")"
QueryOptimizer_optimize(parsed_query) == PlanText[parsed_query]

BenchmarkResultText ==
    ("OptimizedPlan(select * from employees)" :>
        "Result for OptimizedPlan(select * from employees)") @@
    ("OptimizedPlan(select * from orders where order_id = 100)" :>
        "Result for OptimizedPlan(select * from orders where order_id = 100)") @@
    ("OptimizedPlan(select name from customers where city = 'new york')" :>
        "Result for OptimizedPlan(select name from customers where city = 'new york')") @@
    ("OptimizedPlan(select * from orders)" :>
        "Result for OptimizedPlan(select * from orders)") @@
    ("OptimizedPlan(select count(*) from sales)" :>
        "Result for OptimizedPlan(select count(*) from sales)")

ResultText ==
    ("OptimizedPlan()" :> "Result for OptimizedPlan()") @@
    ("OptimizedPlan(q1)" :> "Result for OptimizedPlan(q1)") @@
    ("OptimizedPlan(q2)" :> "Result for OptimizedPlan(q2)") @@
    ("OptimizedPlan(q3)" :> "Result for OptimizedPlan(q3)") @@
    BenchmarkResultText

\* ExecutionEngine::execute: "Result for " + plan (the sleep changes no state)
ExecutionEngine_execute(plan) == ResultText[plan]

\* the threads that may run process_query on the one DatabaseSystem
Threads == {"t1", "t2"}

\* a thread outside process_query
Idle == [pc |-> "idle", query |-> "", plan |-> "", cached_result |-> "", result |-> ""]

\* the second object of the side-by-side run, before that run starts
NoTwin == [self |-> New_TinyFLUCache(Capacity), ret |-> "", evicted |-> {}]

-----------------------------------------------------------------------------
(* Observations kept beside the program state.  They record what a call    *)
(* did; no operation of the program reads them.                            *)

NoCall == [op |-> "new", query |-> "", result |-> "", ret |-> "", calls |-> <<>>,
           present |-> FALSE, size |-> 0, evicted |-> {}, name |-> <<>>,
           branch |-> "", deletes |-> 0, reported |-> "", executed |-> 0, puts |-> 0,
           notices |-> <<>>, run |-> 0]

\* a get or put call on object before, which ended with outcome r
Observed(op, before, query, result, r) ==
    [NoCall EXCEPT !.op = op, !.query = query, !.result = result, !.ret = r.ret,
                   !.calls = r.calls,
                   !.present = (query \in Store(before)),
                   !.size = Cardinality(Store(before)),
                   !.evicted = Store(before) \ Store(r.self)]

Called(hook, calls) == \E i \in 1..Len(calls) : calls[i] = hook

NoFifo == [on |-> TRUE, order |-> <<>>]

\* admission order of the resident keys, followed until the first update call
FifoAfter(f, before, query, r) ==
    IF Called("update", r.calls) THEN [on |-> FALSE, order |-> <<>>]
    ELSE IF f.on /\ Called("admit", r.calls)
    THEN [on |-> TRUE,
          order |-> Append(SelectSeq(f.order, LAMBDA k : k \in Store(r.self)), query)]
    ELSE f

\* resident keys by last admission or update, oldest first
TouchAfter(t, before, query, r) ==
    IF before.kind = "s3fifo" THEN <<>>
    ELSE IF Called("update", r.calls) \/ Called("admit", r.calls)
    THEN Append(SelectSeq(t, LAMBDA k : k \in Store(r.self) /\ k # query), query)
    ELSE t

\* update calls per resident key since its admission, counted up to 2
UpdatesAfter(u, before, query, r) ==
    IF before.kind # "s3fifo" THEN EmptyMap
    ELSE IF Called("admit", r.calls)
    THEN [k \in Store(r.self) |-> IF k = query \/ k \notin DOMAIN u THEN 0 ELSE u[k]]
    ELSE IF Called("update", r.calls)
    THEN [k \in DOMAIN u |-> IF k = query /\ u[k] < 2 THEN u[k] + 1 ELSE u[k]]
    ELSE u

\* the result passed to the put that inserted each resident key
InsertedAfter(ins, before, query, result, r) ==
    IF Called("insert", r.calls)
    THEN [k \in Store(r.self) |-> IF k = query \/ k \notin DOMAIN ins THEN result ELSE ins[k]]
    ELSE ins

-----------------------------------------------------------------------------
(* The state after construction and the operations. *)

Init ==
    /\ cache_strategy = New_LIRSCache(Capacity)
    /\ crashed = FALSE
    /\ last = NoCall
    /\ fifo = NoFifo
    /\ touch = <<>>
    /\ updates = EmptyMap
    /\ inserted = EmptyMap
    /\ gets = 0
    /\ twin = NoTwin
    /\ threads = [t \in Threads |-> Idle]
    /\ age = EmptyMap

Offered(self, query) ==
    IF query \in Store(self) THEN self.cache_hits < MaxHits
    ELSE self.cache_misses < MaxMisses

get(query) ==
    /\ ~crashed
    /\ Offered(cache_strategy, query)
    /\ LET r == CacheStrategy_get(cache_strategy, query)
       IN  /\ cache_strategy' = r.self
           /\ last' = Observed("get", cache_strategy, query, "", r)
           /\ fifo' = FifoAfter(fifo, cache_strategy, query, r)
           /\ touch' = TouchAfter(touch, cache_strategy, query, r)
           /\ updates' = UpdatesAfter(updates, cache_strategy, query, r)
           /\ inserted' = InsertedAfter(inserted, cache_strategy, query, "", r)
    /\ gets' = gets + 1
    /\ UNCHANGED <<crashed, twin, threads, age>>

\* put of a key already in the store is offered for the keys of RePutKeys only
OfferedPut(self, query) == query \in Store(self) => query \in RePutKeys

put(query, result) ==
    /\ ~crashed
    /\ OfferedPut(cache_strategy, query)
    /\ \E begin \in BeginChoices(cache_strategy) :
         LET r == CacheStrategy_put(cache_strategy, query, result, begin)
         IN  /\ cache_strategy' = r.self
             /\ last' = Observed("put", cache_strategy, query, result, r)
             /\ fifo' = FifoAfter(fifo, cache_strategy, query, r)
             /\ touch' = TouchAfter(touch, cache_strategy, query, r)
             /\ updates' = UpdatesAfter(updates, cache_strategy, query, r)
             /\ inserted' = InsertedAfter(inserted, cache_strategy, query, result, r)
    /\ UNCHANGED <<crashed, gets, twin, threads, age>>

\* The else branch deletes the pointer that line 348 already deleted: undefined
\* behaviour.  The builds either end the process there (the allocator's double-free
\* abort, or a fault in the virtual destructor call) or run on to the assignment.
set_cache_strategy(strategy) ==
    /\ ~crashed
    /\ LET branch == Selected(strategy)
           seen == [NoCall EXCEPT !.op = "set", !.name = strategy, !.branch = branch,
                                  !.deletes = DeletesOfOld(branch)]
       IN  /\ last' = seen
           /\ \/ /\ DeletesOfOld(branch) = 1
                 /\ cache_strategy' = Constructed(branch)
                 /\ crashed' = FALSE
              \/ /\ DeletesOfOld(branch) > 1
                 /\ cache_strategy' = Constructed(branch)
                 /\ crashed' = FALSE
              \/ /\ DeletesOfOld(branch) > 1
                 /\ cache_strategy' = Freed
                 /\ crashed' = TRUE
    /\ fifo' = NoFifo
    /\ touch' = <<>>
    /\ updates' = EmptyMap
    /\ inserted' = EmptyMap
    /\ gets' = 0
    /\ UNCHANGED <<twin, threads, age>>

Next ==
    \/ \E query \in Keys : get(query)
    \/ \E args \in PutArgs : put(args[1], args[2])
    \/ \E strategy \in Names : set_cache_strategy(strategy)

Spec == Init /\ [][Next]_vars

-----------------------------------------------------------------------------
(* DatabaseSystem::process_query, run by one caller at a time.  It returns  *)
(* the object after the call, the value returned, the notice printed, how   *)
(* often the engine ran and put was called, and the hooks called.           *)

\* mutant of process_query: on a miss the result is returned without the put
DatabaseSystem_process_query_ReturnsWithoutPut(self, query, begin) ==
    LET parsed_query == QueryParser_parse(query)
        plan == QueryOptimizer_optimize(parsed_query)
        looked == CacheStrategy_get(self, query)
        cached_result == looked.ret
    IN  IF cached_result # ""
        THEN [self |-> looked.self, ret |-> cached_result, reported |-> "hit",
              executed |-> 0, puts |-> 0, result |-> "", calls |-> looked.calls]
        ELSE LET result == ExecutionEngine_execute(plan)
             IN  [self |-> looked.self, ret |-> result, reported |-> "miss",
                  executed |-> 1, puts |-> 0, result |-> result, calls |-> looked.calls]

\* mutant of process_query: the cache is asked for parsed_query, the put keeps query
DatabaseSystem_process_query_LooksUpParsed(self, query, begin) ==
    LET parsed_query == QueryParser_parse(query)
        plan == QueryOptimizer_optimize(parsed_query)
        looked == CacheStrategy_get(self, parsed_query)
        cached_result == looked.ret
    IN  IF cached_result # ""
        THEN [self |-> looked.self, ret |-> cached_result, reported |-> "hit",
              executed |-> 0, puts |-> 0, result |-> "", calls |-> looked.calls]
        ELSE LET result == ExecutionEngine_execute(plan)
                 stored == CacheStrategy_put(looked.self, query, result, begin)
             IN  [self |-> stored.self, ret |-> result, reported |-> "miss",
                  executed |-> 1, puts |-> 1, result |-> result,
                  calls |-> looked.calls \o stored.calls]

DatabaseSystem_process_query(self, query, begin) ==
    LET parsed_query == QueryParser_parse(query)
        plan == QueryOptimizer_optimize(parsed_query)
        \* the cache is asked for query, the text as submitted, not for parsed_query
        looked == CacheStrategy_get(self, query)
        cached_result == looked.ret
    IN  IF cached_result # ""
        THEN [self |-> looked.self, ret |-> cached_result, reported |-> "hit",
              executed |-> 0, puts |-> 0, result |-> "", calls |-> looked.calls]
        ELSE LET result == ExecutionEngine_execute(plan)
                 stored == CacheStrategy_put(looked.self, query, result, begin)
             IN  [self |-> stored.self, ret |-> result, reported |-> "miss",
                  executed |-> 1, puts |-> 1, result |-> result,
                  calls |-> looked.calls \o stored.calls]

OfferedQuery(self) == self.cache_hits + self.cache_misses < MaxQueries

process_query(query) ==
    /\ ~crashed
    /\ OfferedQuery(cache_strategy)
    /\ \E begin \in BeginChoices(cache_strategy) :
         LET r == DatabaseSystem_process_query(cache_strategy, query, begin)
         IN  /\ cache_strategy' = r.self
             /\ last' = [Observed("query", cache_strategy, query, r.result, r)
                            EXCEPT !.reported = r.reported, !.executed = r.executed,
                                   !.puts = r.puts]
             /\ fifo' = FifoAfter(fifo, cache_strategy, query, r)
             /\ touch' = TouchAfter(touch, cache_strategy, query, r)
             /\ updates' = UpdatesAfter(updates, cache_strategy, query, r)
             /\ inserted' = InsertedAfter(inserted, cache_strategy, query, r.result, r)
    /\ gets' = gets + 1
    /\ UNCHANGED <<crashed, twin, threads, age>>

NextQuery ==
    \/ \E query \in Queries : process_query(query)
    \/ \E strategy \in Names : set_cache_strategy(strategy)

SpecQuery == Init /\ [][NextQuery]_vars

-----------------------------------------------------------------------------
(* DatabaseSystem::run_benchmark: process_query on each of the seven texts  *)
(* of the array queries, in order.                                          *)

queries ==
    << "SELECT * FROM employees",
       "SELECT * FROM orders WHERE order_id = 100",
       "SELECT name FROM customers WHERE city = 'New York'",
       "SELECT * FROM orders",
       "SELECT COUNT(*) FROM sales",
       "SELECT * FROM employees",
       "SELECT * FROM orders WHERE order_id = 100" >>

\* the loop from its i-th iteration on: the outcomes it may end with (one, unless an
\* evict reaches cache.begin()).  acc is the object and what the calls so far did.
RECURSIVE BenchmarkFrom(_, _)
BenchmarkFrom(acc, i) ==
    IF i > Len(queries) THEN {acc}
    ELSE UNION {
        LET r == DatabaseSystem_process_query(acc.self, queries[i], begin)
        IN  BenchmarkFrom(
                [self |-> r.self,
                 notices |-> Append(acc.notices, r.reported),
                 calls |-> acc.calls \o r.calls,
                 executed |-> acc.executed + r.executed,
                 puts |-> acc.puts + r.puts,
                 evicted |-> acc.evicted \cup (Store(acc.self) \ Store(r.self)),
                 fifo |-> FifoAfter(acc.fifo, acc.self, queries[i], r),
                 touch |-> TouchAfter(acc.touch, acc.self, queries[i], r),
                 updates |-> UpdatesAfter(acc.updates, acc.self, queries[i], r),
                 inserted |-> InsertedAfter(acc.inserted, acc.self, queries[i],
                                            r.result, r)],
                i + 1)
        : begin \in BeginChoices(acc.self) }

DatabaseSystem_run_benchmark(self, f, t, u, ins) ==
    BenchmarkFrom([self |-> self, notices |-> <<>>, calls |-> <<>>, executed |-> 0,
                   puts |-> 0, evicted |-> {}, fifo |-> f, touch |-> t, updates |-> u,
                   inserted |-> ins], 1)

\* an object no get or put has been called on
AsConstructed(self) ==
    self \in {New_LIRSCache(Capacity), New_TinyFLUCache(Capacity), New_S3FIFOCache(Capacity)}

OfferedBenchmark(self) ==
    self.cache_hits + self.cache_misses < Len(queries) * MaxRuns

\* last.run counts the benchmark runs made in a row from construction on (0 when some
\* other call came in between)
run_benchmark ==
    /\ ~crashed
    /\ OfferedBenchmark(cache_strategy)
    /\ \E r \in DatabaseSystem_run_benchmark(cache_strategy, fifo, touch, updates, inserted) :
         /\ cache_strategy' = r.self
         /\ last' = [NoCall EXCEPT
                        !.op = "benchmark", !.calls = r.calls, !.notices = r.notices,
                        !.executed = r.executed, !.puts = r.puts, !.evicted = r.evicted,
                        !.size = Cardinality(Store(cache_strategy)),
                        !.run = IF AsConstructed(cache_strategy) THEN 1
                                ELSE IF last.op = "benchmark" /\ last.run > 0
                                THEN last.run + 1 ELSE 0]
         /\ fifo' = r.fifo
         /\ touch' = r.touch
         /\ updates' = r.updates
         /\ inserted' = r.inserted
    /\ gets' = gets + Len(queries)
    /\ UNCHANGED <<crashed, twin, threads, age>>

NextBenchmark ==
    \/ run_benchmark
    \/ \E query \in Queries : process_query(query)
    \/ \E strategy \in Names : set_cache_strategy(strategy)

SpecBenchmark == Init /\ [][NextBenchmark]_vars

-----------------------------------------------------------------------------
(* A LIRSCache (cache_strategy, as constructed) and a TinyFLUCache of the   *)
(* same capacity (twin) given the same get and put calls, side by side.     *)

both_get(query) ==
    /\ Offered(cache_strategy, query)
    /\ LET r == CacheStrategy_get(cache_strategy, query)
           r2 == CacheStrategy_get(twin.self, query)
       IN  /\ cache_strategy' = r.self
           /\ last' = Observed("get", cache_strategy, query, "", r)
           /\ twin' = [self |-> r2.self, ret |-> r2.ret,
                       evicted |-> Store(twin.self) \ Store(r2.self)]
    /\ UNCHANGED <<crashed, fifo, touch, updates, inserted, gets, threads, age>>

both_put(query, result) ==
    /\ OfferedPut(cache_strategy, query)
    /\ \E begin \in BeginChoices(cache_strategy), begin2 \in BeginChoices(twin.self) :
         LET r == CacheStrategy_put(cache_strategy, query, result, begin)
             r2 == CacheStrategy_put(twin.self, query, result, begin2)
         IN  /\ cache_strategy' = r.self
             /\ last' = Observed("put", cache_strategy, query, result, r)
             /\ twin' = [self |-> r2.self, ret |-> r2.ret,
                         evicted |-> Store(twin.self) \ Store(r2.self)]
    /\ UNCHANGED <<crashed, fifo, touch, updates, inserted, gets, threads, age>>

NextPair ==
    \/ \E query \in Keys : both_get(query)
    \/ \E args \in PutArgs : both_put(args[1], args[2])

SpecPair == Init /\ [][NextPair]_vars

-----------------------------------------------------------------------------
(* get and put on a LIRSCache or a TinyFLUCache as constructed, with the    *)
(* age of every resident key kept beside them: the number of puts of keys   *)
(* not in the store since the key was admitted or last updated (counted up  *)
(* to Capacity).                                                            *)

AgeAfter(a, before, query, r) ==
    IF Called("admit", r.calls)
    THEN [k \in Store(r.self) |->
             IF k = query \/ k \notin DOMAIN a THEN 0
             ELSE IF a[k] < Capacity THEN a[k] + 1 ELSE a[k]]
    ELSE IF Called("update", r.calls)
    THEN [k \in Store(r.self) |-> IF k = query \/ k \notin DOMAIN a THEN 0 ELSE a[k]]
    ELSE a

InitResidency ==
    /\ cache_strategy \in {New_LIRSCache(Capacity), New_TinyFLUCache(Capacity)}
    /\ crashed = FALSE
    /\ last = NoCall
    /\ fifo = NoFifo
    /\ touch = <<>>
    /\ updates = EmptyMap
    /\ inserted = EmptyMap
    /\ gets = 0
    /\ twin = NoTwin
    /\ threads = [t \in Threads |-> Idle]
    /\ age = EmptyMap

aged_get(query) ==
    /\ Offered(cache_strategy, query)
    /\ LET r == CacheStrategy_get(cache_strategy, query)
       IN  /\ cache_strategy' = r.self
           /\ last' = Observed("get", cache_strategy, query, "", r)
           /\ age' = AgeAfter(age, cache_strategy, query, r)
    /\ gets' = gets + 1
    /\ UNCHANGED <<crashed, fifo, touch, updates, inserted, twin, threads>>

aged_put(query, result) ==
    /\ OfferedPut(cache_strategy, query)
    /\ \E begin \in BeginChoices(cache_strategy) :
         LET r == CacheStrategy_put(cache_strategy, query, result, begin)
         IN  /\ cache_strategy' = r.self
             /\ last' = Observed("put", cache_strategy, query, result, r)
             /\ age' = AgeAfter(age, cache_strategy, query, r)
    /\ UNCHANGED <<crashed, fifo, touch, updates, inserted, gets, twin, threads>>

NextResidency ==
    \/ \E query \in Keys : aged_get(query)
    \/ \E query \in Keys : aged_put(query, "v1")

SpecResidency == InitResidency /\ [][NextResidency]_vars

-----------------------------------------------------------------------------
(* evict as a function of the object it is called on.  The objects drawn    *)
(* are of the three policies, with a store over EvictKeys and, in the       *)
(* sequence evict inspects first, any arrangement of some of the stored     *)
(* keys: the states put leaves, and the states in which the sequences hold  *)
(* fewer keys than the store, down to none.                                 *)

EvictKeys == {"", KeyNames[1], KeyNames[2]}

\* the sequences without repetition over subsets of S
Arrangements(S) ==
    {seq \in UNION {[1..n -> S] : n \in 0..Cardinality(S)} :
        \A i, j \in 1..Len(seq) : seq[i] = seq[j] => i = j}

EvictInputs ==
    UNION {
        { [New_LIRSCache(Capacity) EXCEPT
              !.cache = [k \in store |-> "v1"],
              !.high_interference_list = seq,
              !.in_high = [k \in store |-> TRUE]],
          [New_TinyFLUCache(Capacity) EXCEPT
              !.cache = [k \in store |-> "v1"],
              !.query_queue = seq],
          [New_S3FIFOCache(Capacity) EXCEPT
              !.cache = [k \in store |-> "v1"],
              !.short_term = seq] }
        : <<store, seq>> \in
              UNION {{<<S, q>> : q \in Arrangements(S)} : S \in SUBSET EvictKeys} }

InitEvict ==
    /\ cache_strategy \in EvictInputs
    /\ crashed = FALSE
    /\ last = NoCall
    /\ fifo = NoFifo
    /\ touch = <<>>
    /\ updates = EmptyMap
    /\ inserted = EmptyMap
    /\ gets = 0
    /\ twin = NoTwin
    /\ threads = [t \in Threads |-> Idle]
    /\ age = EmptyMap

\* one call of the virtual evict()
call_evict ==
    /\ \E begin \in BeginChoices(cache_strategy) :
         LET after == evict(cache_strategy, begin)
         IN  /\ cache_strategy' = after
             /\ last' = [NoCall EXCEPT !.op = "evict", !.calls = <<"evict">>,
                                       !.size = Cardinality(Store(cache_strategy)),
                                       !.evicted = Store(cache_strategy) \ Store(after)]
    /\ UNCHANGED <<crashed, fifo, touch, updates, inserted, gets, twin, threads, age>>

NextEvict == call_evict

SpecEvict == InitEvict /\ [][NextEvict]_vars

-----------------------------------------------------------------------------
(* Threads calling process_query on the one DatabaseSystem.  LockManager's  *)
(* acquire and release only print, and neither process_query nor            *)
(* CacheStrategy holds a mutex, so the statements of get and put of two     *)
(* threads interleave freely.  One action is one statement of the code.     *)

\* the queries each thread submits
ThreadQueries(t) == IF t = "t1" THEN Queries ELSE {"q1", "Q1"}

\* get calls begun and not yet counted in cache_hits or cache_misses
Uncounted == {t \in Threads : threads[t].pc \in {"get_find", "get_hit", "get_miss"}}

Goto(t, pc) == threads' = [threads EXCEPT ![t].pc = pc]

Observations == <<crashed, last, fifo, touch, updates, inserted, gets, twin, age>>

\* lines 387-388, and the call of get at line 391
thread_process_query(t, query) ==
    /\ threads[t].pc = "idle"
    /\ cache_strategy.cache_hits + cache_strategy.cache_misses + Cardinality(Uncounted)
           < MaxQueries
    /\ threads' = [threads EXCEPT ![t] =
           [Idle EXCEPT !.pc = "get_find", !.query = query,
                        !.plan = QueryOptimizer_optimize(QueryParser_parse(query))]]
    /\ UNCHANGED <<cache_strategy, Observations>>

\* line 93: if (cache.find(query) != cache.end())
thread_get_find(t) ==
    /\ threads[t].pc = "get_find"
    /\ Goto(t, IF threads[t].query \in DOMAIN cache_strategy.cache
                THEN "get_hit" ELSE "get_miss")
    /\ UNCHANGED <<cache_strategy, Observations>>

\* line 95: cache_hits++
thread_get_hit(t) ==
    /\ threads[t].pc = "get_hit"
    /\ cache_strategy' = [cache_strategy EXCEPT !.cache_hits = @ + 1]
    /\ Goto(t, "get_update")
    /\ UNCHANGED Observations

\* line 96: update(query)
thread_get_update(t) ==
    /\ threads[t].pc = "get_update"
    /\ cache_strategy' = update(cache_strategy, threads[t].query)
    /\ Goto(t, "get_return")
    /\ UNCHANGED Observations

\* line 97: return cache[query] (operator[] default-inserts "" for a key that has gone),
\* then the test of line 392: a non-empty value is returned as a hit
thread_get_return(t) ==
    /\ threads[t].pc = "get_return"
    /\ LET query == threads[t].query
           read == IF query \in DOMAIN cache_strategy.cache
                   THEN cache_strategy
                   ELSE [cache_strategy EXCEPT !.cache = MapSet(@, query, "")]
       IN  /\ cache_strategy' = read
           /\ threads' = [threads EXCEPT ![t] =
                  IF read.cache[query] # "" THEN Idle
                  ELSE [@ EXCEPT !.pc = "execute", !.cached_result = ""]]
    /\ UNCHANGED Observations

\* lines 101-102: cache_misses++; return ""
thread_get_miss(t) ==
    /\ threads[t].pc = "get_miss"
    /\ cache_strategy' = [cache_strategy EXCEPT !.cache_misses = @ + 1]
    /\ threads' = [threads EXCEPT ![t].pc = "execute", ![t].cached_result = ""]
    /\ UNCHANGED Observations

\* lines 397-402: acquire and release print, begin and commit print, execute computes
thread_execute(t) ==
    /\ threads[t].pc = "execute"
    /\ threads' = [threads EXCEPT ![t].pc = "put_find",
                                  ![t].result = ExecutionEngine_execute(threads[t].plan)]
    /\ UNCHANGED <<cache_strategy, Observations>>

\* line 108: if (cache.find(query) != cache.end())
thread_put_find(t) ==
    /\ threads[t].pc = "put_find"
    /\ Goto(t, IF threads[t].query \in DOMAIN cache_strategy.cache
                THEN "put_update" ELSE "put_full")
    /\ UNCHANGED <<cache_strategy, Observations>>

\* line 110: update(query), and the return of process_query
thread_put_update(t) ==
    /\ threads[t].pc = "put_update"
    /\ cache_strategy' = update(cache_strategy, threads[t].query)
    /\ threads' = [threads EXCEPT ![t] = Idle]
    /\ UNCHANGED Observations

\* lines 114-117: if (cache.size() >= capacity) evict()
thread_put_full(t) ==
    /\ threads[t].pc = "put_full"
    /\ \E begin \in BeginChoices(cache_strategy) :
         cache_strategy' =
             IF Cardinality(DOMAIN cache_strategy.cache) >= cache_strategy.capacity
             THEN evict(cache_strategy, begin) ELSE cache_strategy
    /\ Goto(t, "put_insert")
    /\ UNCHANGED Observations

\* line 118: cache[query] = result
thread_put_insert(t) ==
    /\ threads[t].pc = "put_insert"
    /\ cache_strategy' =
           [cache_strategy EXCEPT !.cache = MapSet(@, threads[t].query, threads[t].result)]
    /\ Goto(t, "put_admit")
    /\ UNCHANGED Observations

\* line 119: admit(query), and the return of process_query
thread_put_admit(t) ==
    /\ threads[t].pc = "put_admit"
    /\ cache_strategy' = admit(cache_strategy, threads[t].query)
    /\ threads' = [threads EXCEPT ![t] = Idle]
    /\ UNCHANGED Observations

NextThreads ==
    \E t \in Threads :
        \/ \E query \in ThreadQueries(t) : thread_process_query(t, query)
        \/ thread_get_find(t)
        \/ thread_get_hit(t)
        \/ thread_get_update(t)
        \/ thread_get_return(t)
        \/ thread_get_miss(t)
        \/ thread_execute(t)
        \/ thread_put_find(t)
        \/ thread_put_update(t)
        \/ thread_put_full(t)
        \/ thread_put_insert(t)
        \/ thread_put_admit(t)

SpecThreads == Init /\ [][NextThreads]_vars

-----------------------------------------------------------------------------
(* Properties. *)

Size(self) == Cardinality(Store(self))

\* how often key k occurs in the policy-owned sequences of an object
Occurrences(self, k) ==
    LET seqs == Sequences_of(self)
        count[i \in 0..Len(seqs)] ==
            IF i = 0 THEN 0
            ELSE count[i - 1] + Cardinality({j \in 1..Len(seqs[i]) : seqs[i][j] = k})
    IN  count[Len(seqs)]

SequenceKeys(self) == UNION {Range(Sequences_of(self)[i]) : i \in 1..Len(Sequences_of(self))}

Fresh(self) ==
    /\ self.cache_hits = 0
    /\ self.cache_misses = 0
    /\ Store(self) = {}
    /\ SequenceKeys(self) = {}

RecognizedNames ==
    { <<"l","i","r","s">>, <<"t","i","n","y","f","l","u">>,
      <<"s","3","f","i","f","o">>, <<"s","3","-","f","i","f","o">> }

Unrecognized(name) == ToLowerStr(trim(name)) \notin RecognizedNames

\* C1: capacity invariant.  After every put returns, whatever the policy and the keys
\* (the empty string included), the store holds at most capacity entries.
C1_CapacityInvariant ==
    (~crashed /\ last.op = "put") => Size(cache_strategy) <= cache_strategy.capacity

\* C2: store / policy agreement.  Between two calls every key of the store occurs exactly
\* once in the policy-owned sequences, and the sequences hold no key the store lacks.
C2_StorePolicyAgreement ==
    ~crashed =>
        /\ \A k \in Store(cache_strategy) : Occurrences(cache_strategy, k) = 1
        /\ SequenceKeys(cache_strategy) \subseteq Store(cache_strategy)

\* C3: a strategy swap resets the state.  After set_cache_strategy with any name,
\* recognized or not, the system holds a new policy with zero hits, zero misses, an
\* empty store and empty sequences.
C3_SwapResetsState ==
    last.op = "set" => (~crashed /\ Fresh(cache_strategy))

\* C4: an unrecognized name degrades safely.  set_cache_strategy with an unrecognized
\* name gives the invalid-selection notice and a fresh LIRS policy without a crash: the
\* old object is deleted exactly once and cache_strategy refers to a live object.
C4_UnrecognizedDegradesSafely ==
    (last.op = "set" /\ Unrecognized(last.name)) =>
        /\ last.branch = "invalid"
        /\ last.deletes = 1
        /\ ~crashed
        /\ cache_strategy.kind = "lirs"
        /\ Fresh(cache_strategy)

\* C5: FIFO degeneration.  While keys are inserted with put and no update has run (no
\* get hit, no put of a key already present), a put that finds the store full evicts
\* the earliest-admitted key still resident, under each of the three policies.
C5_FifoDegeneration ==
    [][ (last'.op = "put" /\ Called("evict", last'.calls) /\ fifo.on /\ fifo'.on)
            => (fifo.order # <<>> /\ last'.evicted = {Head(fifo.order)}) ]_vars

\* C6: recency reordering under LIRS and TinyFLU.  A hit moves the key to the tail of
\* the queue, and the victim of every eviction is the resident key whose last touch
\* (admission or hit) is the oldest.
C6_RecencyReordering ==
    [][ (cache_strategy.kind \in {"lirs", "tinyflu"} /\ last'.op \in {"get", "put"}) =>
            LET queue == Sequences_of(cache_strategy')[1]
            IN  /\ (last'.op = "get" /\ last'.query \in Store(cache_strategy))
                       => (queue # <<>> /\ queue[Len(queue)] = last'.query)
                /\ Called("evict", last'.calls)
                       => (touch # <<>> /\ last'.evicted = {Head(touch)}) ]_vars

\* C7: S3-FIFO promotion.  A newly admitted key is at the tail of short_term, and a
\* resident key sits in short_term, medium_term or long_term (and only there) when it
\* has received 0, 1 or at least 2 updates since its admission.
C7_ThreeQueuePromotion ==
    (~crashed /\ cache_strategy.kind = "s3fifo") =>
        LET st == cache_strategy.short_term
            mt == cache_strategy.medium_term
            lt == cache_strategy.long_term
        IN  /\ (last.op = "put" /\ Called("admit", last.calls))
                   => (st # <<>> /\ st[Len(st)] = last.query)
            /\ \A k \in Store(cache_strategy) :
                   /\ Occurrences(cache_strategy, k) = 1
                   /\ updates[k] = 0 => k \in Range(st)
                   /\ updates[k] = 1 => k \in Range(mt)
                   /\ updates[k] = 2 => k \in Range(lt)

\* C8: idempotent hit.  get of a resident key returns the value the key was inserted
\* with, adds exactly 1 to the hit counter, and leaves the miss counter, the store (keys
\* and values) and the relative order of all other keys unchanged.
C8_IdempotentHit ==
    [][ (last'.op = "get" /\ last'.query \in Store(cache_strategy)) =>
            LET q == last'.query
                before == Sequences_of(cache_strategy)
                after == Sequences_of(cache_strategy')
            IN  /\ last'.ret = inserted[q]
                /\ cache_strategy'.cache = cache_strategy.cache
                /\ cache_strategy'.cache_hits = cache_strategy.cache_hits + 1
                /\ cache_strategy'.cache_misses = cache_strategy.cache_misses
                /\ cache_strategy'.kind = cache_strategy.kind
                /\ Len(after) = Len(before)
                /\ \A i \in 1..Len(before) : RemoveAll(after[i], q) = RemoveAll(before[i], q) ]_vars

\* a hit on a full store that returned the second value
C8_Witness ==
    /\ ~crashed
    /\ last.op = "get"
    /\ last.calls = <<"update">>
    /\ last.size = Capacity
    /\ last.ret = "v2"

\* C9: put of a key already present never overwrites.  It leaves the stored value, the
\* key set, the size and both counters unchanged, evicts and admits nothing, and calls
\* update(key) once and nothing else.
C9_PutPresentNoOverwrite ==
    [][ (last'.op = "put" /\ last'.query \in Store(cache_strategy)) =>
            /\ cache_strategy'.cache = cache_strategy.cache
            /\ cache_strategy'.cache_hits = cache_strategy.cache_hits
            /\ cache_strategy'.cache_misses = cache_strategy.cache_misses
            /\ last'.calls = <<"update">>
            /\ last'.evicted = {}
            /\ SequenceKeys(cache_strategy') = SequenceKeys(cache_strategy)
            /\ cache_strategy' = update(cache_strategy, last'.query) ]_vars

\* a put with another value than the stored one, on a full store
C9_Witness ==
    /\ ~crashed
    /\ last.op = "put"
    /\ last.present
    /\ last.size = Capacity
    /\ last.result = "v2"
    /\ cache_strategy.cache[last.query] = "v1"

\* C10: eviction removes exactly one entry.  A put of a new key into a store holding
\* capacity entries removes exactly one resident key from the store and from every
\* sequence and inserts the new key, leaving capacity entries; get, and put below
\* capacity, remove nothing.
C10_EvictionRemovesOne ==
    [][ /\ (/\ last'.op = "put"
            /\ last'.query \notin Store(cache_strategy)
            /\ Size(cache_strategy) = cache_strategy.capacity) =>
               /\ Cardinality(Store(cache_strategy) \ Store(cache_strategy')) = 1
               /\ (Store(cache_strategy) \ Store(cache_strategy'))
                      \cap SequenceKeys(cache_strategy') = {}
               /\ last'.query \in Store(cache_strategy')
               /\ Size(cache_strategy') = cache_strategy.capacity
        /\ (\/ last'.op = "get"
            \/ (last'.op = "put" /\ Size(cache_strategy) < cache_strategy.capacity)) =>
               Store(cache_strategy) \subseteq Store(cache_strategy') ]_vars

\* a thread that has run a statement of get or put and has not returned from it
InsideCache(t) ==
    threads[t].pc \in {"get_hit", "get_update", "get_return", "get_miss",
                       "put_update", "put_full", "put_insert", "put_admit"}

Quiescent == \A t \in Threads : ~InsideCache(t)

\* C11: thread-safe integration.  With two threads in process_query on one
\* DatabaseSystem, at most one thread at a time is inside get or put, and whenever no
\* thread is inside one the store holds at most capacity entries and agrees with the
\* policy's sequences.
C11_ThreadSafeIntegration ==
    /\ Cardinality({t \in Threads : InsideCache(t)}) <= 1
    /\ Quiescent =>
          /\ Size(cache_strategy) <= cache_strategy.capacity
          /\ \A k \in Store(cache_strategy) : Occurrences(cache_strategy, k) = 1
          /\ SequenceKeys(cache_strategy) \subseteq Store(cache_strategy)

\* C12: the cache is keyed by the normalized query text.  process_query looks the
\* result up and stores it under the lower-cased form of the query, so that a query
\* differing only in letter case from a resident one is a hit and adds no entry.
C12_NormalizedKey ==
    [][last'.op = "query" =>
          LET parsed_query == QueryParser_parse(last'.query)
          IN  /\ parsed_query \in Store(cache_strategy')
              /\ (\E k \in Store(cache_strategy) : QueryParser_parse(k) = parsed_query) =>
                     /\ last'.reported = "hit"
                     /\ Store(cache_strategy') = Store(cache_strategy)]_vars

\* C13: the data flow of process_query.  Every call makes one get.  For a resident key
\* it reports a hit and returns the stored value, the engine does not run and put is
\* not called; otherwise it reports a miss, runs the engine once, calls put once with
\* the engine's result, and the key is resident on return.  The notice agrees with the
\* counter that get advanced.
C13_PipelineDataFlow ==
    [][last'.op = "query" =>
          LET query == last'.query
              before == cache_strategy
              after == cache_strategy'
          IN  /\ gets' = gets + 1
              /\ IF query \in Store(before)
                 THEN /\ last'.reported = "hit"
                      /\ last'.ret = before.cache[query]
                      /\ last'.executed = 0
                      /\ last'.puts = 0
                      /\ after.cache = before.cache
                      /\ after.cache_hits = before.cache_hits + 1
                      /\ after.cache_misses = before.cache_misses
                 ELSE /\ last'.reported = "miss"
                      /\ last'.executed = 1
                      /\ last'.puts = 1
                      /\ last'.result =
                            ExecutionEngine_execute(
                                QueryOptimizer_optimize(QueryParser_parse(query)))
                      /\ last'.ret = last'.result
                      /\ query \in Store(after)
                      /\ after.cache[query] = last'.result
                      /\ after.cache_misses = before.cache_misses + 1
                      /\ after.cache_hits = before.cache_hits]_vars

\* a miss that ran the engine and whose put evicted
C13_Witness ==
    /\ last.op = "query"
    /\ last.reported = "miss"
    /\ Called("evict", last.calls)
    /\ last.query \in Store(cache_strategy)

\* C14: LIRSCache behaves as one recency queue.  A LIRSCache and a TinyFLUCache of the
\* same capacity, given the same get and put calls, have after every call the same
\* store, the same counters, the same returned value and the same eviction victims,
\* and the high list equals the queue.
C14_LirsIsOneRecencyQueue ==
    /\ cache_strategy.cache = twin.self.cache
    /\ cache_strategy.cache_hits = twin.self.cache_hits
    /\ cache_strategy.cache_misses = twin.self.cache_misses
    /\ last.ret = twin.ret
    /\ last.evicted = twin.evicted
    /\ cache_strategy.high_interference_list = twin.self.query_queue

\* the key evict is to remove under S3-FIFO: the head of the first non-empty queue
S3Head(self) ==
    IF self.short_term # <<>> THEN Head(self.short_term)
    ELSE IF self.medium_term # <<>> THEN Head(self.medium_term)
    ELSE Head(self.long_term)

\* C15: eviction priority of S3-FIFO.  Every eviction removes the head of short_term
\* if that queue is non-empty, else the head of medium_term, else the head of long_term.
\* So no key that has been hit is evicted while a resident key has never been hit, and
\* no key of long_term is evicted while medium_term is non-empty.
C15_S3EvictionPriority ==
    [][(cache_strategy.kind = "s3fifo" /\ last'.op = "put" /\ Called("evict", last'.calls)) =>
          /\ SequenceKeys(cache_strategy) # {}
          /\ last'.evicted = {S3Head(cache_strategy)}
          /\ (\E k \in Store(cache_strategy) : updates[k] = 0) =>
                 \A v \in last'.evicted : updates[v] = 0
          /\ cache_strategy.medium_term # <<>> =>
                 last'.evicted \cap Range(cache_strategy.long_term) = {}]_vars

\* C16: hook ordering.  A put of a new key calls evict at most once, only when the store
\* is full and before the insertion, and admit once, after the insertion; a put of a
\* resident key calls neither.  A get that hits calls update once, before the value is
\* read for the return; a get that misses calls no hook.
C16_HookOrdering ==
    /\ (last.op = "put" /\ ~last.present) =>
           last.calls = (IF last.size >= cache_strategy.capacity THEN <<"evict">> ELSE <<>>)
                           \o <<"insert", "admit">>
    /\ (last.op = "put" /\ last.present) => last.calls = <<"update">>
    /\ (last.op = "get" /\ last.present) =>
           /\ last.calls = <<"update">>
           /\ last.ret = cache_strategy.cache[last.query]
    /\ (last.op = "get" /\ ~last.present) => last.calls = <<>>

\* a put of a new key into a full store
C16_Witness ==
    /\ last.op = "put"
    /\ last.calls = <<"evict", "insert", "admit">>

\* C17: counter accounting.  Between two swaps neither counter decreases; a get advances
\* exactly one of them by one, the hit counter exactly when the key is resident; a put,
\* with the hooks it calls, changes neither.  So hits + misses is the number of get calls
\* since the object was constructed.
C17_CounterAccounting ==
    [][/\ last'.op = "get" =>
            /\ cache_strategy'.cache_hits =
                  cache_strategy.cache_hits + (IF last'.present THEN 1 ELSE 0)
            /\ cache_strategy'.cache_misses =
                  cache_strategy.cache_misses + (IF last'.present THEN 0 ELSE 1)
       /\ last'.op = "put" =>
            /\ cache_strategy'.cache_hits = cache_strategy.cache_hits
            /\ cache_strategy'.cache_misses = cache_strategy.cache_misses
       /\ ~crashed' =>
            gets' = cache_strategy'.cache_hits + cache_strategy'.cache_misses]_vars

\* a put that evicted, after one hit and one miss
C17_Witness ==
    /\ last.op = "put"
    /\ Called("evict", last.calls)
    /\ gets = 2
    /\ cache_strategy.cache_hits = 1

\* C18: a lookup miss has no side effect.  get of a key that is not resident returns the
\* empty string and advances the miss counter by one; the store, the hit counter and
\* every structure of the policy stay as they were.
C18_MissWithoutSideEffects ==
    [][(last'.op = "get" /\ ~last'.present) =>
          /\ last'.ret = ""
          /\ cache_strategy' = [cache_strategy EXCEPT !.cache_misses = @ + 1]]_vars

\* a miss on a full store
C18_Witness ==
    /\ last.op = "get"
    /\ ~last.present
    /\ last.size >= cache_strategy.capacity
    /\ cache_strategy.cache_misses = 1

\* C20: the low segment of LIRS is dead.  In every state of a LIRSCache reached by get and
\* put calls the low list is empty and in_high is true for every resident key; so update
\* moves the key to the tail of the high list, and no victim comes from the low list.
C20_LirsLowSegmentDead ==
    [][(~crashed' /\ cache_strategy'.kind = "lirs") =>
          /\ cache_strategy'.low_interference_list = <<>>
          /\ \A k \in Store(cache_strategy') :
                 k \in DOMAIN cache_strategy'.in_high /\ cache_strategy'.in_high[k]
          /\ (last'.op \in {"get", "put"} /\ Called("update", last'.calls)) =>
                 cache_strategy'.high_interference_list =
                     Append(RemoveAll(cache_strategy.high_interference_list, last'.query),
                            last'.query)
          /\ (last'.op = "put" /\ Called("evict", last'.calls)) =>
                 cache_strategy'.high_interference_list =
                     Append(Tail(cache_strategy.high_interference_list), last'.query)]_vars

\* a hit on a full LIRSCache
C20_Witness ==
    /\ cache_strategy.kind = "lirs"
    /\ last.op = "get"
    /\ last.present
    /\ last.size >= cache_strategy.capacity

\* C19: defensive eviction fallback.  Under each of the three policies, evict called
\* while every sequence of the policy is empty and the store is not removes exactly one
\* key from the store.
C19_DefensiveEvictionFallback ==
    [][(last'.op = "evict" /\ SequenceKeys(cache_strategy) = {}
                           /\ Store(cache_strategy) # {}) =>
          /\ Store(cache_strategy') \subseteq Store(cache_strategy)
          /\ Cardinality(Store(cache_strategy) \ Store(cache_strategy')) = 1]_vars

\* C21: the benchmark on a fresh cache.  Under each strategy, run_benchmark right after
\* construction reports 5 misses and then 2 hits, calls evict never and leaves 5 keys in
\* the store; run again at once, it reports 7 hits, with no further miss or eviction.
C21_BenchmarkOutcome ==
    [][last'.op = "benchmark" =>
          /\ last'.run = 1 =>
                /\ last'.notices = <<"miss", "miss", "miss", "miss", "miss", "hit", "hit">>
                /\ cache_strategy'.cache_misses = 5
                /\ cache_strategy'.cache_hits = 2
                /\ last'.executed = 5
                /\ ~Called("evict", last'.calls)
                /\ last'.evicted = {}
                /\ Store(cache_strategy') = Range(queries)
                /\ Cardinality(Store(cache_strategy')) = 5
          /\ last'.run = 2 =>
                /\ last'.notices = <<"hit", "hit", "hit", "hit", "hit", "hit", "hit">>
                /\ cache_strategy'.cache_misses = cache_strategy.cache_misses
                /\ cache_strategy'.cache_hits = cache_strategy.cache_hits + 7
                /\ last'.executed = 0
                /\ ~Called("evict", last'.calls)
                /\ last'.evicted = {}
                /\ cache_strategy'.cache = cache_strategy.cache]_vars

\* the second run in a row on an S3-FIFO cache
C21_Witness ==
    /\ last.op = "benchmark"
    /\ last.run = 2
    /\ cache_strategy.kind = "s3fifo"
    /\ cache_strategy.cache_hits = 9

\* C22: bounded residency of untouched keys.  Under LIRSCache and under TinyFLUCache a
\* resident key that is neither hit nor put again is out of the store once capacity puts
\* of keys not in the store have followed, however often the other keys are touched: no
\* resident key has seen capacity such puts since its last touch.
C22_BoundedResidency ==
    \A k \in Store(cache_strategy) : k \in DOMAIN age /\ age[k] < cache_strategy.capacity

====
